---- MODULE Spec2Model ----
(***************************************************************************)
(* Model of the fastapi-carsales backend: the credential store (users and  *)
(* profiles tables), the Redis token cache, and the service operations of  *)
(* AuthService and UserService that act on them; the seller applications  *)
(* table with SellerApplicationService; the profile picture bucket with  *)
(* StorageService and ProfileService.                                      *)
(*                                                                         *)
(* Time is counted in whole days (the unit of REFRESH_TOKEN_EXPIRE_DAYS).  *)
(* A JWT is the record of its claims plus a signature flag; a cache value  *)
(* is the JSON text of the token, modelled as a tagged pair.               *)
(***************************************************************************)
EXTENDS Integers, Sequences, FiniteSets, TLC

\* ---------------------------------------------------------------- bounds
MaxTime == 1

\* ------------------------------------------------------ program constants
ACCESS_TOKEN_EXPIRE_MINUTES == 30
REFRESH_TOKEN_EXPIRE_DAYS == 7
MAX_ATTEMPTS == 5

\* ------------------------------------------------------------- universes
None == "None"
Ids == {"u1", "u2", "u3"}
SeededIds == {"u1", "u2"}
Emails == {"e1", "e2", "e3"}
Passwords == {"p1", "p2"}
FullNames == {"jane doe", "Bob"}
Suffixes == {"aa", "bb"}

UpdateEmails == {None, "e3"}
UpdateRoles == {None, "seller"}

\* the random suffixes of the attempts of one registration
SuffixSeqs ==
  {s \in [1..MAX_ATTEMPTS -> Suffixes] :
     \A i \in 3..MAX_ATTEMPTS : s[i] = s[2]}

VARIABLES users, profiles, cache, now, last, applications, bucket, sessions

vars == <<users, profiles, cache, now, last, applications, bucket, sessions>>

\* ------------------------------------------------------------ exceptions
\* core/exceptions.py: an error carries status code, label and description;
\* main.py renders it as the response of the request.
BaseCustomException(status_code, error, description) ==
  [status |-> status_code, error |-> error, description |-> description]

OkResponse(status_code) ==
  [status |-> status_code, error |-> "", description |-> ""]

\* main.py: the catch-all handler answers 500 with str(exc) as the message.
global_exception_handler(exc) ==
  [status |-> 500, error |-> "Internal server error", description |-> exc]

\* ---------------------------------------------------------- core/security
hash_password(password, salt) == <<"bcrypt", salt, password>>

verify_password(password, hashed) ==
  hashed[1] = "bcrypt" /\ hashed[3] = password

\* a timedelta counted in days; an int is not a timedelta
timedelta_days(d) == [kind |-> "timedelta", days |-> d]
timedelta_minutes(m) == [kind |-> "timedelta", days |-> m \div (24 * 60)]
int_value(n) == [kind |-> "int", days |-> n]

\* a datetime + x that takes an int as a number of days
datetime_add_lenient(t, x) == [raised |-> "", value |-> t + x.days]

\* datetime + x: defined for a timedelta only, TypeError otherwise
datetime_add(t, x) ==
  IF x.kind = "timedelta"
  THEN [raised |-> "", value |-> t + x.days]
  ELSE [raised |-> "TypeError", value |-> 0]

\* jose jwt.encode with the configured secret and algorithm
jwt_encode(to_encode) ==
  [sub |-> to_encode.sub, typ |-> to_encode.typ, iat |-> to_encode.iat,
   exp |-> to_encode.exp, sig |-> "ok"]

\* the tokens a client may present: every well-signed token with an expiry
\* within the horizon, and one whose signature does not verify
Tokens ==
  {jwt_encode([sub |-> s, typ |-> "refresh", exp |-> e,
               iat |-> e - REFRESH_TOKEN_EXPIRE_DAYS]) :
     s \in Ids \cup {None}, e \in 0..MaxTime}
  \cup {jwt_encode([sub |-> s, typ |-> "access", exp |-> MaxTime,
                    iat |-> MaxTime]) : s \in Ids \cup {None}}
  \cup {[sub |-> "u1", typ |-> "refresh", exp |-> MaxTime, sig |-> "bad",
         iat |-> MaxTime - REFRESH_TOKEN_EXPIRE_DAYS]}

NoToken == [sub |-> None, typ |-> None, iat |-> 0, exp |-> 0, sig |-> "none"]

create_access_token(user_id, expires_delta, t) ==
  LET delta == IF expires_delta.kind = "None"
               THEN timedelta_minutes(ACCESS_TOKEN_EXPIRE_MINUTES)
               ELSE expires_delta
      expire == datetime_add(t, delta)
  IN IF expire.raised # ""
     THEN [raised |-> expire.raised, token |-> NoToken]
     ELSE [raised |-> "",
           token |-> jwt_encode([sub |-> user_id, exp |-> expire.value,
                                 iat |-> t, typ |-> "access"])]

create_refresh_token(user_id, expires_delta, t) ==
  LET delta == IF expires_delta.kind = "None"
               THEN timedelta_days(REFRESH_TOKEN_EXPIRE_DAYS)
               ELSE expires_delta
      expire == datetime_add(t, delta)
  IN IF expire.raised # ""
     THEN [raised |-> expire.raised, token |-> NoToken]
     ELSE [raised |-> "",
           token |-> jwt_encode([sub |-> user_id, exp |-> expire.value,
                                 iat |-> t, typ |-> "refresh"])]

\* jose jwt.decode: JWTError on a bad signature or a passed expiry
jwt_decode(token, t) ==
  IF token.sig # "ok" \/ token.exp < t
  THEN [raised |-> "JWTError", typ |-> None, sub |-> None]
  ELSE [raised |-> "", typ |-> token.typ, sub |-> token.sub]

\* ------------------------------------------------------------- core/redis
json_dumps(value) == <<"json", value>>
json_loads(text) == text[2]

\* services/auth.py: the per-account key f"refresh_token:{user_id}"
refresh_key(user_id) == <<"refresh_token", user_id>>

\* Redis drops a key once its time to live has run out
live(c, t) == {k \in DOMAIN c : t < c[k].expire_at}

\* cache_set: SETEX of the serialized value; an error is logged and swallowed
cache_set(c, key, value, expire, t, redis_ok) ==
  IF redis_ok
  THEN [k \in (DOMAIN c) \cup {key} |->
          IF k = key
          THEN [value |-> json_dumps(value),
                expire_at |-> t + (expire \div (24 * 60 * 60))]
          ELSE c[k]]
  ELSE c

\* cache_get: the deserialized value, or None on a miss or on an error
cache_get(c, key, t, redis_ok) ==
  IF redis_ok /\ key \in live(c, t)
  THEN json_loads(c[key].value)
  ELSE NoToken

\* cache_delete: DEL of the key; returns True, or False on an error
cache_delete(c, key, redis_ok) ==
  [cache |-> IF redis_ok THEN [k \in (DOMAIN c) \ {key} |-> c[k]] ELSE c,
   ret |-> redis_ok]

\* ---------------------------------------------------------- services/user
get_user_by_email(us, email) ==
  LET found == {u \in DOMAIN us : us[u].email = email}
  IN IF found = {} THEN None ELSE CHOOSE u \in found : TRUE

get_user_by_id(us, user_id) ==
  IF user_id \in DOMAIN us
  THEN [raised |-> FALSE, user |-> user_id,
        exc |-> OkResponse(200)]
  ELSE [raised |-> TRUE, user |-> None,
        exc |-> BaseCustomException(404, "User not found",
                  "The user with the given ID was not found.")]

UserResult(raised, us, ps, exc) ==
  [raised |-> raised, users |-> us, profiles |-> ps, exc |-> exc]

\* a soft delete that stamps deleted_at and leaves is_active alone
soft_delete_user_timestamp(us, ps, user_id) ==
  LET g == get_user_by_id(us, user_id)
  IN IF g.raised
     THEN UserResult(TRUE, us, ps, g.exc)
     ELSE UserResult(FALSE, [us EXCEPT ![user_id].deleted_at = "deleted"], ps,
                     OkResponse(204))

\* soft_delete_user: look the user up, clear is_active, commit
soft_delete_user(us, ps, user_id) ==
  LET g == get_user_by_id(us, user_id)
  IN IF g.raised
     THEN UserResult(TRUE, us, ps, g.exc)
     ELSE UserResult(FALSE, [us EXCEPT ![user_id].is_active = FALSE], ps,
                     OkResponse(204))

EmailInUse ==
  BaseCustomException(409, "Email already in use",
                      "The email is already in use.")

\* update_user: partial update; an argument of None leaves the field alone
update_user(us, ps, user_id, email, role, is_active) ==
  LET g == get_user_by_id(us, user_id)
  IN IF g.raised
     THEN UserResult(TRUE, us, ps, g.exc)
     ELSE IF email # None /\ email # us[user_id].email
             /\ get_user_by_email(us, email) # None
     THEN UserResult(TRUE, us, ps, EmailInUse)
     ELSE UserResult(FALSE,
            [us EXCEPT
               ![user_id].email = IF email # None THEN email ELSE @,
               ![user_id].role = IF role # None THEN role ELSE @,
               ![user_id].is_active = IF is_active = "True" THEN TRUE
                                      ELSE IF is_active = "False" THEN FALSE
                                      ELSE @],
            ps, OkResponse(200))

\* a row of the profiles table as register_user builds it: the columns it
\* does not set are NULL
Profile(slug, full_name) ==
  [slug |-> slug, full_name |-> full_name, phone |-> None, city |-> None,
   state |-> None, country |-> None, picture_filename |-> None,
   picture_mime |-> None]

\* python-slugify with separator "-": lower case, words joined by hyphens
slugify(full_name) ==
  IF full_name \in {"Jane Doe", "jane doe"} THEN "jane-doe"
  ELSE IF full_name = "Bob" THEN "bob"
  ELSE "x"

\* the value of "await self.session.scalars(stmt)": a ScalarResult object
\* wrapping the rows of SELECT EXISTS(...) WHERE users.email = :email
session_scalars_exists(us, email) ==
  [cls |-> "ScalarResult", rows |-> <<\E u \in DOMAIN us : us[u].email = email>>]

\* truth value of a Python object: a bool is its value, an object that
\* defines neither __bool__ nor __len__ is true
py_truth(obj) == IF obj.cls = "bool" THEN obj.rows[1] ELSE TRUE

\* the test "if existing_user:" of register_user
email_taken(us, email) == py_truth(session_scalars_exists(us, email))

EmailConflict ==
  BaseCustomException(409, "Invalid e-mail",
                      "There is already an account with this e-mail address")

RegistrationFailed ==
  BaseCustomException(500, "Registration failed",
    "Could not generate a unique username. Please try again.")

\* session.commit() of the new user and profile rows: the unique indexes on
\* users.email and profiles.slug make SQLAlchemy raise its IntegrityError
commit_new_user(us, ps, user_id, user_row, profile_row) ==
  IF \/ \E u \in DOMAIN us : us[u].email = user_row.email
     \/ \E u \in DOMAIN ps : ps[u].slug = profile_row.slug
  THEN [raised |-> "sqlalchemy.exc.IntegrityError", users |-> us,
        profiles |-> ps]
  ELSE [raised |-> "",
        users |-> [u \in (DOMAIN us) \cup {user_id} |->
                     IF u = user_id THEN user_row ELSE us[u]],
        profiles |-> [u \in (DOMAIN ps) \cup {user_id} |->
                     IF u = user_id THEN profile_row ELSE ps[u]]]

\* the class named by "except IntegrityError" (imported from psycopg2)
CaughtIntegrityError == "psycopg2.IntegrityError"

\* the retry loop of register_user, from attempt i on
RECURSIVE register_attempts(_, _, _, _, _, _, _)
register_attempts(us, ps, user_id, user_row, full_name, suffixes, i) ==
  IF i > MAX_ATTEMPTS
  THEN UserResult(TRUE, us, ps, RegistrationFailed)
  ELSE LET profile_row == Profile(<<slugify(full_name), suffixes[i]>>,
                                   full_name)
           c == commit_new_user(us, ps, user_id, user_row, profile_row)
       IN IF c.raised = ""
          THEN UserResult(FALSE, c.users, c.profiles, OkResponse(201))
          ELSE IF c.raised = CaughtIntegrityError
          THEN register_attempts(us, ps, user_id, user_row, full_name,
                                 suffixes, i + 1)
          ELSE UserResult(TRUE, us, ps, global_exception_handler(c.raised))

register_user(us, ps, user_id, salt, email, password, full_name, suffixes) ==
  IF email_taken(us, email)
  THEN UserResult(TRUE, us, ps, EmailConflict)
  ELSE register_attempts(us, ps, user_id,
         [email |-> email, password_hash |-> hash_password(password, salt),
          role |-> "buyer", is_active |-> TRUE, deleted_at |-> None],
         full_name, suffixes, 1)

\* ---------------------------------------------------------- services/auth
InvalidCredentials ==
  BaseCustomException(401, "Invalid email or password",
                      "The email or password is incorrect.")

InactiveAccount ==
  BaseCustomException(401, "Inactive account",
                      "The account is inactive. Please contact support.")

authenticate(us, email, password) ==
  LET user == get_user_by_email(us, email)
  IN IF user = None
     THEN [raised |-> TRUE, user |-> None, exc |-> InvalidCredentials]
     ELSE IF ~us[user].is_active
     THEN [raised |-> TRUE, user |-> None, exc |-> InactiveAccount]
     ELSE IF ~verify_password(password, us[user].password_hash)
     THEN [raised |-> TRUE, user |-> None, exc |-> InvalidCredentials]
     ELSE [raised |-> FALSE, user |-> user, exc |-> OkResponse(200)]

\* AuthService.refresh_token: both tokens are created with the configured
\* integers as expires_delta, the refresh token is cached and set as cookie
AuthService_refresh_token(c, user_id, t, redis_ok) ==
  LET access == create_access_token(
                  user_id, int_value(ACCESS_TOKEN_EXPIRE_MINUTES), t)
      refresh == create_refresh_token(
                  user_id, int_value(REFRESH_TOKEN_EXPIRE_DAYS), t)
  IN IF access.raised # ""
     THEN [raised |-> access.raised, cache |-> c,
           cookie |-> NoToken, ret |-> NoToken]
     ELSE IF refresh.raised # ""
     THEN [raised |-> refresh.raised, cache |-> c,
           cookie |-> NoToken, ret |-> NoToken]
     ELSE [raised |-> "",
           cache |-> cache_set(c, refresh_key(user_id), refresh.token,
                       REFRESH_TOKEN_EXPIRE_DAYS * 24 * 60 * 60, t, redis_ok),
           cookie |-> refresh.token, ret |-> access.token]

TokenExpired ==
  BaseCustomException(401, "Token expired", "The refresh token has expired.")

InvalidTokenType ==
  BaseCustomException(401, "Invalid token type",
                      "The refresh token is invalid.")

InvalidTokenClaims ==
  BaseCustomException(401, "Invalid token claims",
                      "The refresh token claims are invalid.")

TokenRevoked ==
  BaseCustomException(401, "Token revoked or expired",
                      "The refresh token has been revoked or expired.")

TokenNotFound ==
  BaseCustomException(401, "Token not found",
                      "Refresh token for the given user id was not found")

\* a whitelist that only looks for the presence of an entry
token_differs_presence(stored_token, token) == stored_token = NoToken

\* the comparison stored_token != token of validate_refresh_token
token_differs(stored_token, token) == stored_token # token

\* a validation that does not look at the type claim
wrong_type_unchecked(payload) == FALSE

\* the test "if payload.get('type') != 'refresh'"
wrong_type(payload) == payload.typ # "refresh"

validate_refresh_token(c, us, token, t, redis_ok) ==
  LET payload == jwt_decode(token, t)
      user_id == payload.sub
  IN IF payload.raised # ""
     THEN [raised |-> TRUE, user |-> None, exc |-> TokenExpired]
     ELSE IF wrong_type(payload)
     THEN [raised |-> TRUE, user |-> None, exc |-> InvalidTokenType]
     ELSE IF user_id = None
     THEN [raised |-> TRUE, user |-> None, exc |-> InvalidTokenClaims]
     ELSE IF token_differs(
               cache_get(c, refresh_key(user_id), t, redis_ok), token)
     THEN [raised |-> TRUE, user |-> None, exc |-> TokenRevoked]
     ELSE IF get_user_by_id(us, user_id).raised
     THEN [raised |-> TRUE, user |-> None,
           exc |-> get_user_by_id(us, user_id).exc]
     ELSE [raised |-> FALSE, user |-> user_id, exc |-> OkResponse(200)]

\* Python's "deleted == 0" on the bool that cache_delete returns
py_eq_zero(b) == (b = FALSE)

\* a logout that deletes under a key other than the one the tokens are
\* stored under
logout_wrong_key(c, user_id, redis_ok) ==
  LET d == cache_delete(c, <<"refresh", user_id>>, redis_ok)
  IN IF py_eq_zero(d.ret)
     THEN [raised |-> TRUE, cache |-> d.cache, exc |-> TokenNotFound]
     ELSE [raised |-> FALSE, cache |-> d.cache, exc |-> OkResponse(204)]

\* AuthService.logout: delete the cookie and the cache entry
logout(c, user_id, redis_ok) ==
  LET d == cache_delete(c, refresh_key(user_id), redis_ok)
  IN IF py_eq_zero(d.ret)
     THEN [raised |-> TRUE, cache |-> d.cache, exc |-> TokenNotFound]
     ELSE [raised |-> FALSE, cache |-> d.cache, exc |-> OkResponse(204)]

\* ------------------------------------------------------------------ state
\* the last request: its operation and inputs, the response, the account id
\* that authenticate / validate_refresh_token returned, the token of the
\* response body and the cookie; for logout, token is the entry that the
\* cache held for the account when the call was made; input is the request
\* body of the operations that take one
NoLast == [op |-> "none", arg |-> None, password |-> None, token |-> NoToken,
           resp |-> OkResponse(200), validated |-> None,
           body |-> NoToken, cookie |-> NoToken, input |-> None]

\* the rows of the users and profiles tables when the service starts
SeedUsers ==
  [u \in SeededIds |->
     IF u = "u1"
     THEN [email |-> "e1", password_hash |-> hash_password("p1", "s1"),
           role |-> "buyer", is_active |-> TRUE, deleted_at |-> None]
     ELSE [email |-> "e2", password_hash |-> hash_password("p2", "s2"),
           role |-> "admin", is_active |-> TRUE, deleted_at |-> None]]

SeedProfiles ==
  [u \in SeededIds |->
     IF u = "u1"
     THEN Profile(<<"jane-doe", "aa">>, "Jane Doe")
     ELSE Profile(<<"bob", "aa">>, "Bob")]

EmptyCache == [k \in {} |-> 0]

\* a table without rows, a bucket without objects, no request in flight
EmptyTable == [k \in {} |-> 0]

\* the token cache is a Redis instance that outlives the process: at start
\* it holds, per account, no entry or a refresh token of that account in the
\* form cache_set stores it, with its remaining time to live
SeedCaches ==
  {[k \in {refresh_key(u) : u \in {x \in Ids : f[x] > 0}} |->
      [value |-> json_dumps(
         jwt_encode([sub |-> k[2], typ |-> "refresh", exp |-> f[k[2]],
                     iat |-> f[k[2]] - REFRESH_TOKEN_EXPIRE_DAYS])),
       expire_at |-> f[k[2]]]] :
     f \in {g \in [Ids -> 0..MaxTime] :
             g["u2"] = 0 /\ g["u3"] \in {0, MaxTime}}}

Init ==
  /\ users = SeedUsers
  /\ profiles = SeedProfiles
  /\ cache = EmptyCache
  /\ now = 0
  /\ last = NoLast
  /\ applications = EmptyTable
  /\ bucket = EmptyTable
  /\ sessions = EmptyTable

\* ---------------------------------------------------------------- actions
\* whether a Redis command of the request succeeds (TRUE) or raises (FALSE);
\* a request rejected before AuthService.refresh_token is called makes no
\* such command and has one outcome only
RedisOutcomes(reached) == IF reached THEN BOOLEAN ELSE {TRUE}

\* POST /auth/login: authenticate, then AuthService.refresh_token
Login ==
  \E email \in Emails, password \in Passwords :
  \E redis_ok \in RedisOutcomes(~authenticate(users, email, password).raised) :
    LET a == authenticate(users, email, password)
        r == AuthService_refresh_token(cache, a.user, now, redis_ok)
    IN /\ cache' = IF a.raised THEN cache ELSE r.cache
       /\ last' = [NoLast EXCEPT
                     !.op = "login", !.arg = email, !.password = password,
                     !.resp = IF a.raised THEN a.exc
                              ELSE IF r.raised # ""
                              THEN global_exception_handler(r.raised)
                              ELSE OkResponse(200),
                     !.validated = a.user,
                     !.body = IF a.raised THEN NoToken ELSE r.ret,
                     !.cookie = IF a.raised THEN NoToken ELSE r.cookie]
       /\ UNCHANGED <<users, profiles, now>>
       /\ UNCHANGED <<applications, bucket, sessions>>

\* POST /auth/refresh: validate_refresh_token, then AuthService.refresh_token
Refresh ==
  \E token \in Tokens, get_ok \in BOOLEAN :
  \E set_ok \in RedisOutcomes(
       ~validate_refresh_token(cache, users, token, now, get_ok).raised) :
    LET v == validate_refresh_token(cache, users, token, now, get_ok)
        r == AuthService_refresh_token(cache, v.user, now, set_ok)
    IN /\ cache' = IF v.raised THEN cache ELSE r.cache
       /\ last' = [NoLast EXCEPT
                     !.op = "refresh", !.token = token,
                     !.resp = IF v.raised THEN v.exc
                              ELSE IF r.raised # ""
                              THEN global_exception_handler(r.raised)
                              ELSE OkResponse(200),
                     !.validated = v.user,
                     !.body = IF v.raised THEN NoToken ELSE r.ret,
                     !.cookie = IF v.raised THEN NoToken ELSE r.cookie]
       /\ UNCHANGED <<users, profiles, now>>
       /\ UNCHANGED <<applications, bucket, sessions>>

\* AuthService.logout for an account id
Logout ==
  \E user_id \in Ids, redis_ok \in BOOLEAN :
    LET r == logout(cache, user_id, redis_ok)
    IN /\ cache' = r.cache
       /\ last' = [NoLast EXCEPT
                     !.op = "logout", !.arg = user_id, !.resp = r.exc,
                     !.token = cache_get(cache, refresh_key(user_id), now,
                                         TRUE)]
       /\ UNCHANGED <<users, profiles, now>>
       /\ UNCHANGED <<applications, bucket, sessions>>

\* UserService.soft_delete_user for an account id
SoftDelete ==
  \E user_id \in Ids :
    LET r == soft_delete_user(users, profiles, user_id)
    IN /\ users' = r.users
       /\ last' = [NoLast EXCEPT !.op = "soft_delete", !.arg = user_id,
                                 !.resp = r.exc]
       /\ UNCHANGED <<profiles, cache, now>>
       /\ UNCHANGED <<applications, bucket, sessions>>

\* UserService.update_user
UpdateUser ==
  \E user_id \in Ids, email \in UpdateEmails, role \in UpdateRoles,
     is_active \in {None, "True", "False"} :
    LET r == update_user(users, profiles, user_id, email, role, is_active)
    IN /\ users' = r.users
       /\ last' = [NoLast EXCEPT !.op = "update", !.arg = user_id,
                                 !.resp = r.exc]
       /\ UNCHANGED <<profiles, cache, now>>
       /\ UNCHANGED <<applications, bucket, sessions>>

\* POST /users/register: UserService.register_user with a fresh uuid4 id,
\* a fresh bcrypt salt and the random suffixes of the attempts
Register ==
  \E email \in Emails, password \in {"p1"}, full_name \in FullNames,
     suffixes \in SuffixSeqs,
     user_id \in Ids \ DOMAIN users :
    LET r == register_user(users, profiles, user_id, "s3", email, password,
                           full_name, suffixes)
    IN /\ users' = r.users
       /\ profiles' = r.profiles
       /\ last' = [NoLast EXCEPT !.op = "register", !.arg = email,
                                 !.validated = user_id, !.resp = r.exc]
       /\ UNCHANGED <<cache, now>>
       /\ UNCHANGED <<applications, bucket, sessions>>

\* the clock advances one day; Redis expires the keys whose TTL has run out
Tick ==
  /\ now < MaxTime
  /\ now' = now + 1
  /\ cache' = [k \in live(cache, now + 1) |-> cache[k]]
  /\ UNCHANGED <<users, profiles, last>>
  /\ UNCHANGED <<applications, bucket, sessions>>

Next ==
  \/ Login
  \/ Refresh
  \/ Logout
  \/ SoftDelete
  \/ UpdateUser
  \/ Register
  \/ Tick

Spec == Init /\ [][Next]_vars

\* a step of the named operation (Tick leaves last alone and moves the clock)
OpStep(op) == last'.op = op /\ now' = now

\* the same program connected to a token cache that already holds entries
InitCache ==
  /\ users = SeedUsers
  /\ profiles = SeedProfiles
  /\ cache \in SeedCaches
  /\ now = 0
  /\ last = NoLast
  /\ applications = EmptyTable
  /\ bucket = EmptyTable
  /\ sessions = EmptyTable

SpecCache == InitCache /\ [][Next]_vars

\* ------------------------------------------------------------ properties
\* the token verifies: good signature, expiry not passed
Verifies(t) == t.sig = "ok" /\ now <= t.exp

\* the cache currently holds exactly the token t under refresh_token:{a}
Cached(t, a) ==
  /\ refresh_key(a) \in DOMAIN cache
  /\ now < cache[refresh_key(a)].expire_at
  /\ cache[refresh_key(a)].value = json_dumps(t)

\* everything C1 asks of a token t to be accepted for account a
Acceptable(t, a) ==
  /\ Verifies(t)
  /\ t.typ = "refresh"
  /\ t.sub = a
  /\ a \in DOMAIN users
  /\ Cached(t, a)

Accepts(t, a, redis_ok) ==
  LET v == validate_refresh_token(cache, users, t, now, redis_ok)
  IN ~v.raised /\ v.user = a

\* C1 as stated: in every reachable state validate_refresh_token(t) returns
\* account a if and only if t is a well-signed unexpired refresh token with
\* subject a, account a exists and t equals the cached value - whatever the
\* outcome of the cache read.
C1_Original ==
  \A t \in Tokens, a \in Ids, redis_ok \in BOOLEAN :
    Accepts(t, a, redis_ok) <=> Acceptable(t, a)

\* C1 (amended): validate_refresh_token(t) returns account a if and only if
\* t is a well-signed unexpired refresh token with subject a, account a
\* exists, the cache read succeeds and t equals the value stored under
\* refresh_token:{a}; a token that differs from the stored value, has no
\* entry, or whose cache read fails is never accepted.
C1_Thm ==
  \A t \in Tokens, a \in Ids, redis_ok \in BOOLEAN :
    Accepts(t, a, redis_ok) <=> (redis_ok /\ Acceptable(t, a))

\* a refresh request whose token was accepted while another refresh token of
\* the same account, not the cached one, is on offer
C1_Witness ==
  /\ last.op = "refresh"
  /\ last.validated \in Ids
  /\ Acceptable(last.token, last.validated)
  /\ \E t \in Tokens : /\ t # last.token /\ Verifies(t)
                        /\ t.typ = "refresh" /\ t.sub = last.validated

\* the account, if any, whose correct credentials the last login presented
LoginAccount ==
  {u \in DOMAIN users :
     /\ users[u].email = last.arg
     /\ users[u].is_active
     /\ verify_password(last.password, users[u].password_hash)}

\* C2: after issueTokens (AuthService.refresh_token) was called for account a
\* and the request ended, the refresh token issued by this call is accepted
\* for a and every other refresh token of a is rejected with TokenRevoked.
C2_Claim ==
  (last.op \in {"login", "refresh"} /\ last.validated \in Ids) =>
    /\ Accepts(last.cookie, last.validated, TRUE)
    /\ \A t \in Tokens :
         (t # last.cookie /\ Verifies(t) /\ t.typ = "refresh"
          /\ t.sub = last.validated) =>
           validate_refresh_token(cache, users, t, now, TRUE).exc
             = TokenRevoked

C4_Claim ==
  last.op = "logout" =>
    ((last.resp = TokenNotFound) <=> (last.token = NoToken))

\* C5: a login with the correct password of an existing active account
\* completes with 200 and returns the access token, and the cache entry
\* refresh_token:{a} then holds exactly the refresh token of the cookie.
C5_Claim ==
  (last.op = "login" /\ LoginAccount # {}) =>
    /\ last.resp.status = 200
    /\ last.body.typ = "access"
    /\ last.cookie.typ = "refresh"
    /\ \A a \in LoginAccount : Cached(last.cookie, a)

\* the errors the specification calls TokenInvalid
TokenInvalid == {TokenExpired, InvalidTokenType, InvalidTokenClaims}

\* the token fails verification, is not of type refresh, or has no subject
Malformed(t) == ~Verifies(t) \/ t.typ # "refresh" \/ t.sub = None

\* C6: validate_refresh_token rejects with a 401 TokenInvalid error every
\* token whose signature or expiry verification fails, whose type is not
\* "refresh" (an access token too, even when the account has a live cache
\* entry) or that has no subject, and such a rejection leaves the token
\* cache as it was.
C6_Thm ==
  [][/\ \A t \in Tokens, redis_ok \in BOOLEAN :
          Malformed(t) =>
            LET v == validate_refresh_token(cache, users, t, now, redis_ok)
            IN v.raised /\ v.exc \in TokenInvalid /\ v.exc.status = 401
     /\ (OpStep("refresh") /\ Malformed(last'.token)) =>
          (last'.resp \in TokenInvalid /\ cache' = cache)
    ]_vars

\* an access token of an account with a live cache entry was presented to
\* the refresh endpoint and rejected for its type
C6_Witness ==
  /\ last.op = "refresh"
  /\ last.token.typ = "access"
  /\ Verifies(last.token)
  /\ last.token.sub \in DOMAIN users
  /\ refresh_key(last.token.sub) \in live(cache, now)
  /\ last.resp = InvalidTokenType

\* C7: for every email and password, the error of authenticate when no
\* account has the email equals (status, label, description) the error it
\* raises when an account with the email exists and the password does not
\* match, whatever the state of that account.
C7_Claim ==
  \A e1 \in Emails, e2 \in Emails, p1 \in Passwords, p2 \in Passwords :
    (/\ get_user_by_email(users, e1) = None
     /\ \E u \in DOMAIN users :
          /\ users[u].email = e2
          /\ ~verify_password(p2, users[u].password_hash)) =>
      authenticate(users, e1, p1).exc = authenticate(users, e2, p2).exc

C9_Claim ==
  [][OpStep("register") =>
       ((last'.resp = EmailConflict)
          <=> (\E u \in DOMAIN users : users[u].email = last'.arg))]_vars

\* the effect C10 asks of a successful registration: one new account,
\* buyer and active, with one new profile whose slug no other profile has
Registered(user_id) ==
  /\ user_id \notin DOMAIN users
  /\ DOMAIN users' = (DOMAIN users) \cup {user_id}
  /\ DOMAIN profiles' = (DOMAIN profiles) \cup {user_id}
  /\ users'[user_id].email = last'.arg
  /\ users'[user_id].role = "buyer"
  /\ users'[user_id].is_active
  /\ \A u \in DOMAIN users : users'[u] = users[u]
  /\ \A u \in DOMAIN profiles :
       profiles'[u] = profiles[u] /\ profiles'[u].slug # profiles'[user_id].slug

\* C10: a registration of an email that no account has, unless it ends in
\* a server error, creates exactly one account with role=buyer and
\* active=true together with exactly one profile linked to it, whose slug
\* differs from the slug of every other profile.
C10_Claim ==
  [][(/\ OpStep("register")
      /\ ~\E u \in DOMAIN users : users[u].email = last'.arg
      /\ last'.resp.status # 500) =>
       \E user_id \in Ids : Registered(user_id)]_vars

\* ------------------------------------------ requests running side by side
\* Every request has a database session of its own (core/database.py
\* get_db). A request suspended at "await self.session.commit()" holds the
\* changes it staged; the commits of two requests happen in either order.
Sessions == {"s1", "s2"}

\* the update_user calls that run side by side
ConcurrentUpdates ==
  [user_id : Ids, email : UpdateEmails, role : UpdateRoles,
   is_active : {None}]

\* update_user up to its commit: load the user, test the new email against
\* the rows the session sees, stage the assignments
update_user_stage(us, user_id, email, role, is_active) ==
  LET g == get_user_by_id(us, user_id)
  IN IF g.raised
     THEN [raised |-> TRUE, exc |-> g.exc, staged |-> None]
     ELSE IF email # None /\ email # us[user_id].email
             /\ get_user_by_email(us, email) # None
     THEN [raised |-> TRUE, exc |-> EmailInUse, staged |-> None]
     ELSE [raised |-> FALSE, exc |-> OkResponse(200),
           staged |-> [op |-> "update", user_id |-> user_id,
                       email |-> IF email # None /\ email # us[user_id].email
                                 THEN email ELSE None,
                       role |-> role, is_active |-> is_active]]

\* the staged columns written to the row
apply_user_update(us, st) ==
  [us EXCEPT
     ![st.user_id].email = IF st.email # None THEN st.email ELSE @,
     ![st.user_id].role = IF st.role # None THEN st.role ELSE @,
     ![st.user_id].is_active = IF st.is_active = "True" THEN TRUE
                               ELSE IF st.is_active = "False" THEN FALSE
                               ELSE @]

\* a users table whose email column has no unique index
commit_user_update_no_index(us, st) ==
  [raised |-> "", users |-> apply_user_update(us, st)]

\* session.commit() of update_user: the UPDATE of the staged columns; the
\* unique index on users.email refuses an email that another row holds
commit_user_update(us, st) ==
  IF st.email # None
     /\ \E u \in DOMAIN us : u # st.user_id /\ us[u].email = st.email
  THEN [raised |-> "sqlalchemy.exc.IntegrityError", users |-> us]
  ELSE [raised |-> "", users |-> apply_user_update(us, st)]

\* update_user is suspended at its commit, or has raised
BeginUpdate ==
  \E s \in Sessions \ DOMAIN sessions, r \in ConcurrentUpdates :
    LET st == update_user_stage(users, r.user_id, r.email, r.role,
                                r.is_active)
    IN /\ sessions' = IF st.raised THEN sessions
                      ELSE [x \in (DOMAIN sessions) \cup {s} |->
                              IF x = s THEN st.staged ELSE sessions[x]]
       /\ last' = [NoLast EXCEPT !.op = "update_begin", !.arg = r.user_id,
                                 !.resp = st.exc]
       /\ UNCHANGED <<users, profiles, cache, now, applications, bucket>>

\* register_user is suspended at the commit of its first attempt, or has
\* raised
BeginRegister ==
  \E s \in Sessions \ DOMAIN sessions, email \in Emails,
     suffixes \in SuffixSeqs, user_id \in Ids \ DOMAIN users :
    LET taken == email_taken(users, email)
        st == [op |-> "register", user_id |-> user_id, email |-> email,
               role |-> "buyer", is_active |-> "True",
               full_name |-> "Bob", suffixes |-> suffixes, i |-> 1]
    IN /\ sessions' = IF taken THEN sessions
                      ELSE [x \in (DOMAIN sessions) \cup {s} |->
                              IF x = s THEN st ELSE sessions[x]]
       /\ last' = [NoLast EXCEPT !.op = "register", !.arg = email,
                                 !.validated = user_id,
                                 !.resp = IF taken THEN EmailConflict
                                          ELSE OkResponse(200)]
       /\ UNCHANGED <<users, profiles, cache, now, applications, bucket>>

\* one attempt of the retry loop of register_user for the staged rows
register_attempt(us, ps, st) ==
  LET c == commit_new_user(us, ps, st.user_id,
             [email |-> st.email, password_hash |-> hash_password("p1", "s3"),
              role |-> "buyer", is_active |-> TRUE, deleted_at |-> None],
             Profile(<<slugify(st.full_name), st.suffixes[st.i]>>,
                     st.full_name))
  IN IF c.raised = ""
     THEN [again |-> FALSE, users |-> c.users, profiles |-> c.profiles,
           exc |-> OkResponse(201)]
     ELSE IF c.raised # CaughtIntegrityError
     THEN [again |-> FALSE, users |-> us, profiles |-> ps,
           exc |-> global_exception_handler(c.raised)]
     ELSE [again |-> st.i < MAX_ATTEMPTS, users |-> us, profiles |-> ps,
           exc |-> RegistrationFailed]

\* a suspended request resumes: its session commits
SessionCommit ==
  \E s \in DOMAIN sessions :
    LET st == sessions[s]
        rest == [x \in (DOMAIN sessions) \ {s} |-> sessions[x]]
        u == commit_user_update(users, st)
        r == register_attempt(users, profiles, st)
    IN /\ users' = IF st.op = "update" THEN u.users ELSE r.users
       /\ profiles' = IF st.op = "update" THEN profiles ELSE r.profiles
       /\ sessions' = IF st.op = "register" /\ r.again
                      THEN [sessions EXCEPT ![s].i = @ + 1]
                      ELSE rest
       /\ last' = [NoLast EXCEPT
                     !.op = "commit", !.arg = st.user_id,
                     !.validated = st.op,
                     !.resp = IF st.op = "register" THEN r.exc
                              ELSE IF u.raised # ""
                              THEN global_exception_handler(u.raised)
                              ELSE OkResponse(200)]
       /\ UNCHANGED <<cache, now, applications, bucket>>

NextConcurrent ==
  \/ BeginUpdate
  \/ BeginRegister
  \/ SessionCommit

SpecConcurrent == Init /\ [][NextConcurrent]_vars

\* no two accounts have the same email
UniqueEmails(us) ==
  \A a \in DOMAIN us, b \in DOMAIN us : a # b => us[a].email # us[b].email

\* C11: under any interleaving of register and update requests, no two
\* accounts in the credential store have the same email, and a register call
\* for an email that already exists creates no row.
C11_Thm ==
  [][/\ UniqueEmails(users')
     /\ (/\ OpStep("register")
         /\ \E u \in DOMAIN users : users[u].email = last'.arg) =>
          /\ users' = users
          /\ profiles' = profiles
          /\ sessions' = sessions]_vars

\* a register call for an email that an account holds has been answered
\* while an update that was staged before another request took the same
\* email is still waiting for its commit
C11_Witness ==
  /\ last.op = "register"
  /\ \E u \in DOMAIN users : users[u].email = last.arg
  /\ \E s \in DOMAIN sessions :
       /\ sessions[s].op = "update"
       /\ sessions[s].email # None
       /\ \E u \in DOMAIN users :
            u # sessions[s].user_id /\ users[u].email = sessions[s].email

\* the slug of attempt i of a registration collides with a stored profile
Collides(full_name, suffixes, i) ==
  \E u \in DOMAIN profiles :
    profiles[u].slug = <<slugify(full_name), suffixes[i]>>

\* C12: the retry loop of register ends after at most 5 commit attempts: a
\* commit that fails with a unique-constraint violation is rolled back and
\* retried with a new suffix; the first attempt that does not collide
\* creates the account and its profile and ends the loop; if all 5 attempts
\* collide, register fails with RegistrationFailed (500) and nothing is
\* persisted.
C12_Claim ==
  \A full_name \in FullNames, suffixes \in SuffixSeqs,
     user_id \in Ids \ DOMAIN users :
    LET r == register_attempts(users, profiles, user_id,
               [email |-> "e3", password_hash |-> hash_password("p1", "s3"),
                role |-> "buyer", is_active |-> TRUE, deleted_at |-> None],
               full_name, suffixes, 1)
        free == {i \in 1..MAX_ATTEMPTS : ~Collides(full_name, suffixes, i)}
    IN (\A u \in DOMAIN users : users[u].email # "e3") =>
         IF free = {}
         THEN /\ r.exc = RegistrationFailed
              /\ r.users = users
              /\ r.profiles = profiles
         ELSE LET k == CHOOSE i \in free : \A j \in free : i <= j
              IN /\ ~r.raised
                 /\ r.exc.status = 201
                 /\ r.profiles[user_id].slug
                      = <<slugify(full_name), suffixes[k]>>

\* ------------------------------------------- services/seller_application
AppIds == {"a1", "a2"}
Details == {"d"}
StatusNames == {"PENDING", "APPROVED", "REJECTED"}

\* Two enum classes are named SellerApplicationStatus. The status column is
\* typed with the one of models/seller_application.py (a plain Enum), so a
\* loaded row holds a member of that class; the service imports the one of
\* schema/seller_application.py (a str Enum), and a review body holds a
\* member of that class.
ModelStatus(name) == [enum |-> "models.SellerApplicationStatus", name |-> name]
SchemaStatus(name) == [enum |-> "schema.SellerApplicationStatus", name |-> name]

\* Python's != on enum members: members of a plain Enum compare by identity,
\* and a str Enum member equals nothing that is not a str, so two members
\* differ unless they are the same member of the same class
enum_ne(a, b) == a.enum # b.enum \/ a.name # b.name

\* the request body of POST /seller-applications/: one field, details
SellerApplicationCreate == [details : Details]

\* the request body of POST /seller-applications/{id}/review
SellerApplicationReview ==
  [status : {SchemaStatus(n) : n \in StatusNames}, admin_notes : {"n"}]

SellerResult(raised, apps, us, exc) ==
  [raised |-> raised, applications |-> apps, users |-> us, exc |-> exc]

DuplicateApplication ==
  BaseCustomException(400, "Duplicate application",
    "There is already a pending seller application for this user")

InvalidReviewStatus ==
  BaseCustomException(400, "Invalid review status",
    "Review status must be either 'approved' or 'rejected'")

ApplicationNotFound ==
  BaseCustomException(404, "Not found", "Seller application not found")

AlreadyReviewed ==
  BaseCustomException(400, "Already reviewed",
    "Seller application has already been reviewed")

\* a create_application whose request carries the id of the buyer u1
create_application_typed(apps, us, request, new_id) ==
  IF \E a \in DOMAIN apps :
       apps[a].user_id = "u1" /\ apps[a].status.name = "PENDING"
  THEN SellerResult(TRUE, apps, us, DuplicateApplication)
  ELSE SellerResult(FALSE,
         [a \in (DOMAIN apps) \cup {new_id} |->
            IF a = new_id
            THEN [user_id |-> "u1", details |-> request.details,
                  status |-> ModelStatus("PENDING"), reviewed_by |-> None,
                  admin_notes |-> None, reviewed_at |-> None]
            ELSE apps[a]],
         us, OkResponse(200))

\* create_application: request.user_id is read first; a request object
\* without that attribute raises AttributeError. Then the pending
\* application of the user is selected, and without one a pending row is
\* inserted under a fresh id.
create_application(apps, us, request, new_id) ==
  IF "user_id" \notin DOMAIN request
  THEN SellerResult(TRUE, apps, us, global_exception_handler("AttributeError"))
  ELSE IF \E a \in DOMAIN apps :
            /\ apps[a].user_id = request.user_id
            /\ apps[a].status.name = "PENDING"
  THEN SellerResult(TRUE, apps, us, DuplicateApplication)
  ELSE SellerResult(FALSE,
         [a \in (DOMAIN apps) \cup {new_id} |->
            IF a = new_id
            THEN [user_id |-> request.user_id, details |-> request.details,
                  status |-> ModelStatus("PENDING"), reviewed_by |-> None,
                  admin_notes |-> None, reviewed_at |-> None]
            ELSE apps[a]],
         us, OkResponse(200))

\* a review that never finds an application reviewed
already_reviewed_never(req) == FALSE

\* the test "req.status != SellerApplicationStatus.PENDING" of
\* review_application: the loaded status against the schema's PENDING
already_reviewed(req) == enum_ne(req.status, SchemaStatus("PENDING"))

\* a review that promotes the applicant of a pending application whatever
\* the decision is
review_promoting(apps, us, ps, application_id, reviewer_id, review, t) ==
  IF review.status = SchemaStatus("PENDING")
  THEN SellerResult(TRUE, apps, us, InvalidReviewStatus)
  ELSE IF application_id \notin DOMAIN apps
  THEN SellerResult(TRUE, apps, us, ApplicationNotFound)
  ELSE IF apps[application_id].status.name # "PENDING"
  THEN SellerResult(TRUE, apps, us, AlreadyReviewed)
  ELSE SellerResult(FALSE,
         [apps EXCEPT
            ![application_id].reviewed_by = reviewer_id,
            ![application_id].admin_notes = review.admin_notes,
            ![application_id].reviewed_at = t,
            ![application_id].status = ModelStatus(review.status.name)],
         update_user(us, ps, apps[application_id].user_id, None, "seller",
                     None).users,
         OkResponse(200))

\* review_application: the review status must not be PENDING, the
\* application must exist and must not be reviewed; then reviewer, notes,
\* time and status are assigned, on approval update_user (which commits the
\* session) sets the applicant's role, and the session is committed. When
\* update_user raises, nothing was committed and get_db rolls back.
review_application(apps, us, ps, application_id, reviewer_id, review, t) ==
  IF review.status = SchemaStatus("PENDING")
  THEN SellerResult(TRUE, apps, us, InvalidReviewStatus)
  ELSE IF application_id \notin DOMAIN apps
  THEN SellerResult(TRUE, apps, us, ApplicationNotFound)
  ELSE IF already_reviewed(apps[application_id])
  THEN SellerResult(TRUE, apps, us, AlreadyReviewed)
  ELSE LET approve == review.status = SchemaStatus("APPROVED")
           staged == [apps EXCEPT
                        ![application_id].reviewed_by = reviewer_id,
                        ![application_id].admin_notes = review.admin_notes,
                        ![application_id].reviewed_at = t,
                        ![application_id].status =
                           IF approve THEN ModelStatus("APPROVED")
                           ELSE ModelStatus("REJECTED")]
           u == update_user(us, ps, apps[application_id].user_id, None,
                            "seller", None)
       IN IF approve /\ u.raised
          THEN SellerResult(TRUE, apps, us, u.exc)
          ELSE SellerResult(FALSE, staged,
                            IF approve THEN u.users ELSE us, OkResponse(200))

\* SellerApplicationService.__init__(self, user_service, session) called
\* with the given arguments
SellerApplicationService(args) ==
  IF Len(args) # 2 THEN "TypeError" ELSE ""

\* core/dependencies.py: the service is built from the session alone
get_seller_application_service(session) ==
  SellerApplicationService(<<session>>)

\* the applications table when the service starts: applications of the
\* buyer u1 in any status, at most one of them pending, the reviewed ones
\* reviewed by the admin u2
SeedRows ==
  {[user_id |-> "u1", details |-> "d", status |-> ModelStatus(n),
    reviewed_by |-> IF n = "PENDING" THEN None ELSE "u2",
    admin_notes |-> IF n = "PENDING" THEN None ELSE "n",
    reviewed_at |-> IF n = "PENDING" THEN None ELSE 0] : n \in StatusNames}

SeedApplications ==
  {f \in UNION {[D -> SeedRows] : D \in SUBSET AppIds} :
     Cardinality({a \in DOMAIN f : f[a].status.name = "PENDING"}) <= 1}

\* the accounts that go with the applications: u1 is a seller once one of
\* its applications is approved
SeedUsersFor(apps) ==
  IF \E a \in DOMAIN apps : apps[a].status.name = "APPROVED"
  THEN [SeedUsers EXCEPT !["u1"].role = "seller"]
  ELSE SeedUsers

InitSeller ==
  /\ applications \in SeedApplications
  /\ users = SeedUsersFor(applications)
  /\ profiles = SeedProfiles
  /\ cache = EmptyCache
  /\ now = 0
  /\ last = NoLast
  /\ bucket = EmptyTable
  /\ sessions = EmptyTable

\* SellerApplicationService.create_application for the request body of the
\* account current_user
CreateApplication ==
  \E current_user \in {"u1"}, request \in SellerApplicationCreate,
     new_id \in AppIds :
    LET r == create_application(applications, users, request, new_id)
    IN /\ new_id \notin DOMAIN applications
       /\ applications' = r.applications
       /\ last' = [NoLast EXCEPT !.op = "create_application",
                                 !.validated = current_user,
                                 !.input = request, !.resp = r.exc]
       /\ UNCHANGED <<users, profiles, cache, now, bucket, sessions>>

\* SellerApplicationService.review_application by the admin u2
ReviewApplication ==
  \E application_id \in AppIds, review \in SellerApplicationReview :
    LET r == review_application(applications, users, profiles,
                                application_id, "u2", review, now)
    IN /\ applications' = r.applications
       /\ users' = r.users
       /\ last' = [NoLast EXCEPT !.op = "review", !.arg = application_id,
                                 !.validated = "u2", !.input = review,
                                 !.resp = r.exc]
       /\ UNCHANGED <<profiles, cache, now, bucket, sessions>>

\* POST /seller-applications/{id}/review: the route's dependencies are
\* resolved before its body runs
ReviewSellerRequest ==
  \E application_id \in AppIds :
    LET svc == get_seller_application_service("session")
    IN /\ svc # ""
       /\ last' = [NoLast EXCEPT !.op = "review_seller_request",
                                 !.arg = application_id,
                                 !.resp = global_exception_handler(svc)]
       /\ UNCHANGED <<users, profiles, cache, now, applications, bucket,
                      sessions>>

NextSeller ==
  \/ CreateApplication
  \/ ReviewApplication
  \/ ReviewSellerRequest
  \/ UpdateUser

SpecSeller == InitSeller /\ [][NextSeller]_vars

Reviewed(row) == row.status.name \in {"APPROVED", "REJECTED"}

C14_Claim ==
  [][(/\ OpStep("review")
      /\ last'.arg \in DOMAIN applications
      /\ last'.input.status.name \in {"APPROVED", "REJECTED"}) =>
       IF applications[last'.arg].status.name = "PENDING"
       THEN /\ last'.resp.status = 200
            /\ applications' =
                 [applications EXCEPT
                    ![last'.arg].status = ModelStatus(last'.input.status.name),
                    ![last'.arg].reviewed_by = last'.validated,
                    ![last'.arg].admin_notes = last'.input.admin_notes,
                    ![last'.arg].reviewed_at = now]
       ELSE /\ last'.resp = AlreadyReviewed
            /\ applications' = applications
            /\ users' = users]_vars

PendingOf(apps, user_id) ==
  {a \in DOMAIN apps :
     apps[a].user_id = user_id /\ apps[a].status.name = "PENDING"}

\* C16: create(accountId, details) fails with DuplicatePending and inserts
\* nothing when the account already has a pending application; otherwise it
\* inserts exactly one new application of that account, with those details,
\* status pending and no reviewer, notes or review time.
C16_Claim ==
  [][OpStep("create_application") =>
       IF PendingOf(applications, last'.validated) # {}
       THEN /\ last'.resp = DuplicateApplication
            /\ applications' = applications
       ELSE \E new_id \in AppIds \ DOMAIN applications :
              /\ DOMAIN applications' = (DOMAIN applications) \cup {new_id}
              /\ \A a \in DOMAIN applications :
                   applications'[a] = applications[a]
              /\ applications'[new_id] =
                   [user_id |-> last'.validated,
                    details |-> last'.input.details,
                    status |-> ModelStatus("PENDING"), reviewed_by |-> None,
                    admin_notes |-> None, reviewed_at |-> None]]_vars

\* ------------------------------------------------------ services/storage
MAX_UPLOAD_SIZE == 5 * 1024 * 1024
ALLOWED_IMAGE_MIMES == {"image/jpeg", "image/png"}

\* an uploaded file, by what the pipeline finds out about its bytes: their
\* number, the MIME type libmagic sniffs, whether PIL verifies them
Files ==
  [size : {0, 1, MAX_UPLOAD_SIZE + 1},
   detected : {"image/jpeg", "image/png", "application/pdf"},
   verifies : BOOLEAN]

\* what clamd.scan_stream does: return nothing (clean), return a verdict
\* naming the threat, raise clamd.ConnectionError, raise another exception
ScanOutcomes == {"clean", "Eicar-Test-Signature", "ConnectionError", "Exception"}

\* uuid4().hex of an upload
Uuids == {"f1"}

FileUploadException(description) ==
  BaseCustomException(400, "File Upload Error", description)

FileTooLarge ==
  BaseCustomException(413, "File too large", "File size exceeds limit")

UnsupportedFileType ==
  BaseCustomException(415, "Unsupported file type", "File type is not allowed")

MalwareDetected(threat) ==
  BaseCustomException(400, "Malware detected", "Malware detected: " \o threat)

AntivirusUnavailable ==
  BaseCustomException(503, "Antivirus service unavailable",
                      "Error connecting to ClamAV")

UnexpectedScanError ==
  BaseCustomException(500, "Unexpected scan error",
                      "Error during antivirus scan")

FileNotFound ==
  BaseCustomException(404, "File not found", "File does not exist")

\* the first four gates of upload_image, in the order of the code: the
\* exception of the first one that rejects the file, or passed
file_gates(file) ==
  IF file.size = 0
  THEN [passed |-> FALSE, exc |-> FileUploadException("Empty file")]
  ELSE IF file.size > MAX_UPLOAD_SIZE
  THEN [passed |-> FALSE, exc |-> FileTooLarge]
  ELSE IF file.detected \notin ALLOWED_IMAGE_MIMES
  THEN [passed |-> FALSE, exc |-> UnsupportedFileType]
  ELSE IF ~file.verifies
  THEN [passed |-> FALSE,
        exc |-> FileUploadException("Invalid or corrupted image")]
  ELSE [passed |-> TRUE, exc |-> OkResponse(200)]

\* the body of the try block of the scan gate: the exception it raises, by
\* class, or none; a verdict makes the body itself raise the 400
scan_try(scan) ==
  IF scan = "ConnectionError"
  THEN [cls |-> "clamd.ConnectionError", exc |-> OkResponse(200)]
  ELSE IF scan = "Exception"
  THEN [cls |-> "Exception", exc |-> OkResponse(200)]
  ELSE IF scan # "clean"
  THEN [cls |-> "BaseCustomException", exc |-> MalwareDetected(scan)]
  ELSE [cls |-> "", exc |-> OkResponse(200)]

\* a scan gate that lets every file through
scan_gate_open(scan) == [passed |-> TRUE, exc |-> OkResponse(200)]

\* the scan gate: the try block with its two except clauses; the second
\* one, "except Exception", catches every exception that is not a
\* clamd.ConnectionError
scan_gate(scan) ==
  LET t == scan_try(scan)
  IN IF t.cls = "" THEN [passed |-> TRUE, exc |-> OkResponse(200)]
     ELSE IF t.cls = "clamd.ConnectionError"
     THEN [passed |-> FALSE, exc |-> AntivirusUnavailable]
     ELSE [passed |-> FALSE, exc |-> UnexpectedScanError]

\* detected.split("/")[-1].replace("jpeg", "jpg")
extension(detected) ==
  IF detected = "image/jpeg" THEN "jpg"
  ELSE IF detected = "image/png" THEN "png"
  ELSE "pdf"

StorageResult(raised, bkt, exc, mime, name) ==
  [raised |-> raised, bucket |-> bkt, exc |-> exc, mime |-> mime,
   name |-> name]

\* upload_image(file): the gates, then put_object under a fresh name; it
\* returns the sniffed type and the object name
upload_image(bkt, file, scan, uuid, put_ok) ==
  LET g == file_gates(file)
      sc == scan_gate(scan)
      object_name == uuid \o "." \o extension(file.detected)
  IN IF ~g.passed THEN StorageResult(TRUE, bkt, g.exc, None, None)
     ELSE IF ~sc.passed THEN StorageResult(TRUE, bkt, sc.exc, None, None)
     ELSE IF ~put_ok
     THEN StorageResult(TRUE, bkt, FileUploadException("Upload failed"),
                        None, None)
     ELSE StorageResult(FALSE,
            [o \in (DOMAIN bkt) \cup {object_name} |->
               IF o = object_name THEN file.detected ELSE bkt[o]],
            OkResponse(200), file.detected, object_name)

\* delete_file: stat_object raises S3Error for a missing object, answered
\* 404; otherwise the object is removed
delete_file(bkt, file_name) ==
  IF file_name \notin DOMAIN bkt
  THEN StorageResult(TRUE, bkt, FileNotFound, None, None)
  ELSE StorageResult(FALSE, [o \in (DOMAIN bkt) \ {file_name} |-> bkt[o]],
                     OkResponse(200), None, None)

\* ------------------------------------------------------ services/profile
\* calling a function with arguments its signature does not take raises
\* TypeError before its body runs
call(takes_positional, keywords_allowed, positional, keywords) ==
  IF positional > takes_positional \/ ~(keywords \subseteq keywords_allowed)
  THEN "TypeError" ELSE ""

\* BaseCustomException.__init__(self, status_code, error, description,
\* headers=None) called with the given keyword arguments
BaseCustomException_init(keywords) ==
  call(4, {"status_code", "error", "description", "headers"}, 0, keywords)

\* a pydantic model takes its fields as keyword arguments only
ProfileUpdateResponse_init(positional) ==
  call(0, {"profile", "image_upload", "image_url"}, positional, {})

\* StorageService.upload_image(self, file) called with the given number of
\* arguments after self
upload_image_call(positional) == call(1, {"file"}, positional, {})

ProfileFields == {"full_name", "phone", "city", "state", "country"}

\* the bodies of PUT /profiles/; None is a field left unset or sent as null
ProfileUpdate ==
  [full_name : {None, "Ann"}, phone : {None, "555"}, city : {None, "Rio"},
   state : {None}, country : {None}]

ProfileResult(raised, ps, bkt, exc) ==
  [raised |-> raised, profiles |-> ps, bucket |-> bkt, exc |-> exc]

\* model_dump(exclude_unset=True, exclude_none=True)
model_dump(profile_update) ==
  {k \in ProfileFields : profile_update[k] # None}

\* update_profile: both raise statements build the exception with the
\* keywords detail and message; the changes are committed before the
\* response model is built from one positional argument
update_profile(ps, bkt, profile_update, user_id) ==
  LET update_dict == model_dump(profile_update)
      raising == BaseCustomException_init({"status_code", "detail", "message"})
      returning == ProfileUpdateResponse_init(1)
      updated == [ps EXCEPT ![user_id] =
                    [k \in DOMAIN ps[user_id] |->
                       IF k \in update_dict THEN profile_update[k]
                       ELSE ps[user_id][k]]]
  IN IF user_id \notin DOMAIN ps
     THEN ProfileResult(TRUE, ps, bkt,
            IF raising # "" THEN global_exception_handler(raising)
            ELSE BaseCustomException(404, "Profile not found", ""))
     ELSE IF update_dict = {}
     THEN ProfileResult(TRUE, ps, bkt,
            IF raising # "" THEN global_exception_handler(raising)
            ELSE BaseCustomException(400, "No valid fields to update", ""))
     ELSE IF returning # ""
     THEN ProfileResult(TRUE, updated, bkt,
                        global_exception_handler(returning))
     ELSE ProfileResult(FALSE, updated, bkt, OkResponse(200))

\* a call whose coroutine is awaited: the state is the one the body leaves
awaited(before, after) == after

\* calling an async function without "await" builds a coroutine object and
\* runs none of its body: the state stays as it was before the call
not_awaited(before, after) == before

\* upload_picture: the profile is used without a test for None;
\* delete_file is called without await; upload_image is called with the
\* file and the bucket name; then the new name and type are stored and
\* committed
upload_picture(ps, bkt, file, user_id, scan, uuid, put_ok) ==
  IF user_id \notin DOMAIN ps
  THEN ProfileResult(TRUE, ps, bkt, global_exception_handler("AttributeError"))
  ELSE LET old == ps[user_id].picture_filename
           deleted == IF old # None
                      THEN not_awaited(bkt, delete_file(bkt, old).bucket)
                      ELSE bkt
           calling == upload_image_call(2)
           up == upload_image(deleted, file, scan, uuid, put_ok)
       IN IF calling # ""
          THEN ProfileResult(TRUE, ps, deleted,
                             global_exception_handler(calling))
          ELSE IF up.raised
          THEN ProfileResult(TRUE, ps, up.bucket, up.exc)
          ELSE ProfileResult(FALSE,
                 [ps EXCEPT ![user_id].picture_filename = up.name,
                            ![user_id].picture_mime = up.mime],
                 up.bucket, OkResponse(200))

\* the profiles and the bucket when the service starts: u1 without a
\* picture, or with the picture f0.png stored in the bucket
InitStorage ==
  /\ users = SeedUsers
  /\ \E old \in {None, "f0.png"} :
       /\ profiles = [SeedProfiles EXCEPT
                        !["u1"].picture_filename = old,
                        !["u1"].picture_mime =
                           IF old = None THEN None ELSE "image/png"]
       /\ bucket = [o \in {old} \ {None} |-> "image/png"]
  /\ cache = EmptyCache
  /\ now = 0
  /\ last = NoLast
  /\ applications = EmptyTable
  /\ sessions = EmptyTable

\* the outcomes of a step the request reaches; a request that ends before
\* the step has the one outcome "first"
Outcomes(reached, outcomes, first) == IF reached THEN outcomes ELSE {first}

ObjectNames ==
  {"f0.png"} \cup {u \o "." \o e : u \in Uuids, e \in {"jpg", "png"}}

\* StorageService.upload_image on the profile bucket
UploadImage ==
  \E file \in Files :
  \E scan \in Outcomes(file_gates(file).passed, ScanOutcomes, "clean") :
  \E uuid \in Outcomes(file_gates(file).passed /\ scan_gate(scan).passed,
                       Uuids, "f1") :
  \E put_ok \in Outcomes(file_gates(file).passed /\ scan_gate(scan).passed,
                         BOOLEAN, TRUE) :
    LET r == upload_image(bucket, file, scan, uuid, put_ok)
    IN /\ (file_gates(file).passed /\ scan_gate(scan).passed) =>
            uuid \o "." \o extension(file.detected) \notin DOMAIN bucket
       /\ bucket' = r.bucket
       /\ last' = [NoLast EXCEPT
                     !.op = "upload_image", !.arg = r.name,
                     !.input = [file |-> file, scan |-> scan, uuid |-> uuid,
                                put_ok |-> put_ok],
                     !.resp = r.exc]
       /\ UNCHANGED <<users, profiles, cache, now, applications, sessions>>

\* StorageService.delete_file on the profile bucket
DeleteFile ==
  \E file_name \in ObjectNames :
    LET r == delete_file(bucket, file_name)
    IN /\ bucket' = r.bucket
       /\ last' = [NoLast EXCEPT !.op = "delete_file", !.arg = file_name,
                                 !.resp = r.exc]
       /\ UNCHANGED <<users, profiles, cache, now, applications, sessions>>

\* ProfileService.update_profile
UpdateProfile ==
  \E user_id \in {"u1", "u3"}, profile_update \in ProfileUpdate :
    LET r == update_profile(profiles, bucket, profile_update, user_id)
    IN /\ profiles' = r.profiles
       /\ last' = [NoLast EXCEPT !.op = "update_profile", !.arg = user_id,
                                 !.input = profile_update, !.resp = r.exc]
       /\ UNCHANGED <<users, bucket, cache, now, applications, sessions>>

\* ProfileService.upload_picture; the steps behind the call of upload_image
\* have outcomes only when that call is made
UploadPicture ==
  \E user_id \in {"u1", "u3"}, file \in Files :
  \E scan \in Outcomes(upload_image_call(2) = "", ScanOutcomes, "clean") :
  \E uuid \in Outcomes(upload_image_call(2) = "", Uuids, "f1") :
  \E put_ok \in Outcomes(upload_image_call(2) = "", BOOLEAN, TRUE) :
    LET r == upload_picture(profiles, bucket, file, user_id, scan, uuid,
                            put_ok)
    IN /\ upload_image_call(2) = "" =>
            uuid \o "." \o extension(file.detected) \notin DOMAIN bucket
       /\ profiles' = r.profiles
       /\ bucket' = r.bucket
       /\ last' = [NoLast EXCEPT
                     !.op = "upload_picture", !.arg = user_id,
                     !.input = [file |-> file, scan |-> scan, uuid |-> uuid,
                                put_ok |-> put_ok],
                     !.resp = r.exc]
       /\ UNCHANGED <<users, cache, now, applications, sessions>>

NextStorage ==
  \/ UploadImage
  \/ DeleteFile
  \/ UpdateProfile
  \/ UploadPicture

SpecStorage == InitStorage /\ [][NextStorage]_vars

\* the file is not empty, within the size limit, of an allowed sniffed type
\* and a sound image
PassesFileGates(file) ==
  /\ file.size # 0
  /\ file.size <= MAX_UPLOAD_SIZE
  /\ file.detected \in ALLOWED_IMAGE_MIMES
  /\ file.verifies

\* C17: uploadImage writes to the object store only after the payload has
\* passed all five gates (non-empty, within max size, sniffed MIME in the
\* allow-list, image integrity, malware scan clean); for every payload
\* rejected at a gate and for every scanner failure the objects of the
\* bucket are unchanged; a write adds the one new object and nothing else.
C17_Thm ==
  [][OpStep("upload_image") =>
       /\ bucket' # bucket =>
            /\ PassesFileGates(last'.input.file)
            /\ last'.input.scan = "clean"
            /\ \A o \in DOMAIN bucket :
                 o \in DOMAIN bucket' /\ bucket'[o] = bucket[o]
            /\ DOMAIN bucket' = (DOMAIN bucket) \cup {last'.arg}
       /\ ~(PassesFileGates(last'.input.file) /\ last'.input.scan = "clean")
            => (bucket' = bucket /\ last'.resp.status >= 400)]_vars

\* an upload that passed the four file gates was stopped at the scan gate,
\* by a verdict or a scanner failure, while an earlier upload is stored
C17_Witness ==
  /\ last.op = "upload_image"
  /\ PassesFileGates(last.input.file)
  /\ last.input.scan # "clean"
  /\ last.resp.status >= 400
  /\ \E o \in DOMAIN bucket : o # "f0.png"

\* C18: at the scan gate of uploadImage a threat reported by the scanner
\* yields MalwareDetected (400, with the threat label), an unreachable
\* scanner yields ScannerUnavailable (503) and any other scanner error
\* yields ScanError (500); a reported threat is never surfaced as ScanError.
C18_Claim ==
  [][(OpStep("upload_image") /\ PassesFileGates(last'.input.file)) =>
       /\ last'.input.scan = "ConnectionError" =>
            last'.resp = AntivirusUnavailable
       /\ last'.input.scan = "Exception" => last'.resp = UnexpectedScanError
       /\ last'.input.scan \notin {"clean", "ConnectionError", "Exception"} =>
            /\ last'.resp = MalwareDetected(last'.input.scan)
            /\ last'.resp # UnexpectedScanError]_vars

\* C19: uploadPicture for a profile that already has a picture, with a file
\* that passes the pipeline, deletes the old object, uploads and persists:
\* after the call the profile's picture filename and MIME are those the
\* pipeline returned, the new object is in the bucket and the previously
\* referenced object is not.
C19_Claim ==
  [][(/\ OpStep("upload_picture")
      /\ last'.arg \in DOMAIN profiles
      /\ profiles[last'.arg].picture_filename # None
      /\ profiles[last'.arg].picture_filename \in DOMAIN bucket
      /\ PassesFileGates(last'.input.file)
      /\ last'.input.scan = "clean"
      /\ last'.input.put_ok) =>
       LET new == last'.input.uuid \o "."
                    \o extension(last'.input.file.detected)
       IN /\ last'.resp.status = 200
          /\ profiles'[last'.arg].picture_filename = new
          /\ profiles'[last'.arg].picture_mime = last'.input.file.detected
          /\ new \in DOMAIN bucket'
          /\ profiles[last'.arg].picture_filename \notin DOMAIN bucket']_vars

\* C20: updateProfile fails with NotFound (404) when the account has no
\* profile and with NoFieldsProvided (400) when every field of the payload
\* is unset or null, in both cases leaving the store unchanged; otherwise
\* it changes exactly the provided non-null fields of that account's
\* profile and no other field or profile.
C20_Claim ==
  [][OpStep("update_profile") =>
       IF last'.arg \notin DOMAIN profiles
       THEN last'.resp.status = 404 /\ profiles' = profiles
       ELSE IF \A k \in ProfileFields : last'.input[k] = None
       THEN last'.resp.status = 400 /\ profiles' = profiles
       ELSE /\ DOMAIN profiles' = DOMAIN profiles
            /\ \A u \in DOMAIN profiles : \A k \in DOMAIN profiles[u] :
                 profiles'[u][k] =
                   IF u = last'.arg /\ k \in ProfileFields
                      /\ last'.input[k] # None
                   THEN last'.input[k]
                   ELSE profiles[u][k]]_vars

\* ------------------------------------------------------ core/dependencies
\* core/exceptions.py: TokenAuthException, 401 with a WWW-Authenticate header
TokenAuthException(description) ==
  BaseCustomException(401, "Authentication Error", description)

credentials_exception ==
  TokenAuthException(
    "The provided authentication token is invalid or expired.")

DependencyResult(raised, user, exc) ==
  [raised |-> raised, user |-> user, exc |-> exc]

\* get_current_user: decode the bearer token, take its subject, load the
\* account and refuse an inactive one; a JWTError and every
\* BaseCustomException raised on the way become credentials_exception.
\* The type claim of the payload is not read.
get_current_user(us, token, t) ==
  LET payload == jwt_decode(token, t)
      user_id == payload.sub
  IN IF payload.raised # ""
     THEN DependencyResult(TRUE, None, credentials_exception)
     ELSE IF user_id = None
     THEN DependencyResult(TRUE, None, credentials_exception)
     ELSE IF get_user_by_id(us, user_id).raised
     THEN DependencyResult(TRUE, None, credentials_exception)
     ELSE IF us[user_id].is_active = FALSE
     THEN DependencyResult(TRUE, None, credentials_exception)
     ELSE DependencyResult(FALSE, user_id, OkResponse(200))

\* get_current_user_id: the id of the account get_current_user returns
get_current_user_id(us, token, t) == get_current_user(us, token, t)

\* ----------------------------- requests of the auth routes side by side
\* routes/auth.py: login and refresh first await authenticate or
\* validate_refresh_token and then await AuthService.refresh_token; other
\* requests run between the two awaits.

\* POST /auth/login up to the return of authenticate
BeginLogin ==
  \E s \in Sessions \ DOMAIN sessions, email \in Emails,
     password \in Passwords :
    LET a == authenticate(users, email, password)
        st == [op |-> "login", user_id |-> a.user, token |-> NoToken]
    IN /\ sessions' = IF a.raised THEN sessions
                      ELSE [x \in (DOMAIN sessions) \cup {s} |->
                              IF x = s THEN st ELSE sessions[x]]
       /\ last' = [NoLast EXCEPT
                     !.op = "login_begin", !.arg = email,
                     !.password = password, !.resp = a.exc,
                     !.validated = a.user]
       /\ UNCHANGED <<users, profiles, cache, now, applications, bucket>>

\* POST /auth/refresh up to the return of validate_refresh_token
BeginRefresh ==
  \E s \in Sessions \ DOMAIN sessions, token \in Tokens, get_ok \in BOOLEAN :
    LET v == validate_refresh_token(cache, users, token, now, get_ok)
        st == [op |-> "refresh", user_id |-> v.user, token |-> token]
    IN /\ sessions' = IF v.raised THEN sessions
                      ELSE [x \in (DOMAIN sessions) \cup {s} |->
                              IF x = s THEN st ELSE sessions[x]]
       /\ last' = [NoLast EXCEPT
                     !.op = "refresh_begin", !.token = token,
                     !.resp = v.exc, !.validated = v.user]
       /\ UNCHANGED <<users, profiles, cache, now, applications, bucket>>

\* the suspended login or refresh resumes with AuthService.refresh_token
\* and answers
SessionIssue ==
  \E s \in DOMAIN sessions :
  \E redis_ok \in RedisOutcomes(
       AuthService_refresh_token(cache, sessions[s].user_id, now,
                                 TRUE).raised = "") :
    LET st == sessions[s]
        r == AuthService_refresh_token(cache, st.user_id, now, redis_ok)
    IN /\ cache' = r.cache
       /\ sessions' = [x \in (DOMAIN sessions) \ {s} |-> sessions[x]]
       /\ last' = [NoLast EXCEPT
                     !.op = "issue", !.arg = st.op, !.token = st.token,
                     !.resp = IF r.raised # ""
                              THEN global_exception_handler(r.raised)
                              ELSE OkResponse(200),
                     !.validated = st.user_id,
                     !.body = r.ret, !.cookie = r.cookie]
       /\ UNCHANGED <<users, profiles, now, applications, bucket>>

\* a request guarded by Depends(get_current_user) presents a bearer token
BearerRequest ==
  \E token \in Tokens :
    LET g == get_current_user(users, token, now)
    IN /\ last' = [NoLast EXCEPT
                     !.op = "bearer", !.token = token, !.resp = g.exc,
                     !.validated = g.user]
       /\ UNCHANGED <<users, profiles, cache, now>>
       /\ UNCHANGED <<applications, bucket, sessions>>

NextAuth ==
  \/ BeginLogin
  \/ BeginRefresh
  \/ SessionIssue
  \/ Logout
  \/ BearerRequest
  \/ SoftDelete
  \/ Tick

SpecAuth == InitCache /\ [][NextAuth]_vars

\* C21: every token rejection is reported with one and the same generic
\* 401 error: the response of validate_refresh_token, and of
\* get_current_user, is identical whether the token is malformed or expired,
\* has the wrong type, lacks a subject, is revoked, or names an account that
\* does not exist.
C21_Claim ==
  \A t1 \in Tokens, t2 \in Tokens, ok1 \in BOOLEAN, ok2 \in BOOLEAN :
    LET v1 == validate_refresh_token(cache, users, t1, now, ok1)
        v2 == validate_refresh_token(cache, users, t2, now, ok2)
        g1 == get_current_user(users, t1, now)
        g2 == get_current_user(users, t2, now)
    IN /\ (v1.raised /\ v2.raised) =>
            v1.exc.status = 401 /\ v1.exc = v2.exc
       /\ (g1.raised /\ g2.raised) =>
            g1.exc.status = 401 /\ g1.exc = g2.exc

\* the answer of the last request came from the catch-all handler
Unexpected(resp) ==
  resp.status = 500 /\ resp.error = "Internal server error"

\* the exceptions that reach the catch-all handler
UnexpectedExceptions ==
  {"TypeError", "AttributeError", "sqlalchemy.exc.IntegrityError"}

\* C22: the catch-all handler returns the same 500 body for any two
\* unexpected exceptions: the body a request got from it is the body every
\* other unexpected exception gets, whatever the exception's message.
C22_Claim ==
  Unexpected(last.resp) =>
    \A exc \in UnexpectedExceptions :
      global_exception_handler(exc) = last.resp

\* the tokens a caller may present: the enumerated ones and whatever the
\* cache holds
Candidates(c) == Tokens \cup {json_loads(c[k].value) : k \in DOMAIN c}

\* the refresh tokens validate_refresh_token accepts for account a
AcceptedFor(c, us, a, t) ==
  {token \in Candidates(c) :
     LET v == validate_refresh_token(c, us, token, t, TRUE)
     IN ~v.raised /\ v.user = a}

\* C23: under any interleaving of login and refresh requests for one
\* account, at most one refresh token is accepted for the account at every
\* moment, and a request that completes leaves the token it issued as the
\* accepted one (so that, once all have completed, the accepted token is the
\* one whose cache write happened last and every other one is rejected).
C23_Claim ==
  [][/\ \A a \in Ids : Cardinality(AcceptedFor(cache', users', a, now')) <= 1
     /\ OpStep("issue") =>
          LET v == validate_refresh_token(cache', users', last'.cookie, now',
                                          TRUE)
          IN /\ ~v.raised /\ v.user = last'.validated
             /\ AcceptedFor(cache', users', last'.validated, now')
                  \subseteq {last'.cookie}]_vars

\* the first half of C23 on its own
C23_AtMostOne ==
  \A a \in Ids : Cardinality(AcceptedFor(cache, users, a, now)) <= 1

\* C24: no authentication path succeeds for an inactive account:
\* validate_refresh_token does not return its id, even for the cached
\* refresh token, and get_current_user rejects every token of the account.
C24_Claim ==
  \A a \in DOMAIN users :
    users[a].is_active = FALSE =>
      \A token \in Tokens :
        /\ \A redis_ok \in BOOLEAN :
             LET v == validate_refresh_token(cache, users, token, now,
                                             redis_ok)
             IN v.raised \/ v.user # a
        /\ LET g == get_current_user(users, token, now)
           IN g.raised \/ g.user # a

\* the get_current_user half of C24 on its own
C24_Bearer ==
  \A a \in DOMAIN users :
    users[a].is_active = FALSE =>
      \A token \in Tokens :
        LET g == get_current_user(users, token, now)
        IN g.raised \/ g.user # a

\* C29: get_current_user authenticates only tokens whose type is "access":
\* a request that presents a refresh token as bearer token is answered 401
\* and no account is returned.
C29_Claim ==
  [][(OpStep("bearer") /\ last'.token.typ # "access") =>
       last'.resp.status = 401 /\ last'.validated = None]_vars

\* C27: a refresh token can be exchanged at most once: of two concurrent
\* /auth/refresh requests that present the same token at most one passes
\* validate_refresh_token, and once a refresh request has completed the
\* token it presented is no longer accepted (TokenRevoked).
C27_Claim ==
  [][/\ \A s1 \in DOMAIN sessions', s2 \in DOMAIN sessions' :
          (/\ s1 # s2
           /\ sessions'[s1].op = "refresh"
           /\ sessions'[s2].op = "refresh") =>
             sessions'[s1].token # sessions'[s2].token
     /\ (OpStep("issue") /\ last'.arg = "refresh") =>
          validate_refresh_token(cache', users', last'.token, now',
                                 TRUE).exc = TokenRevoked]_vars

BeginCreate ==
  \E s \in Sessions \ DOMAIN sessions, request \in SellerApplicationCreate :
    LET r == create_application(applications, users, request, "new")
        st == [op |-> "create", user_id |-> r.applications["new"].user_id,
               row |-> r.applications["new"]]
    IN /\ sessions' = IF r.raised THEN sessions
                      ELSE [x \in (DOMAIN sessions) \cup {s} |->
                              IF x = s THEN st ELSE sessions[x]]
       /\ last' = [NoLast EXCEPT !.op = "create_begin", !.validated = "u1",
                                 !.input = request, !.resp = r.exc]
       /\ UNCHANGED <<users, profiles, cache, now, applications, bucket>>

\* review_application by the admin u2 is suspended at the first await after
\* its select with the assignments it staged, or has raised
BeginReview ==
  \E s \in Sessions \ DOMAIN sessions, application_id \in AppIds,
     review \in SellerApplicationReview :
    LET r == review_application(applications, users, profiles,
                                application_id, "u2", review, now)
        st == [op |-> "review",
               user_id |-> applications[application_id].user_id,
               application_id |-> application_id, review |-> review,
               row |-> r.applications[application_id],
               role |-> IF r.users = users THEN None
                        ELSE r.users[applications[application_id].user_id]
                               .role]
    IN /\ sessions' = IF r.raised THEN sessions
                      ELSE [x \in (DOMAIN sessions) \cup {s} |->
                              IF x = s THEN st ELSE sessions[x]]
       /\ last' = [NoLast EXCEPT !.op = "review_begin",
                                 !.arg = application_id, !.validated = "u2",
                                 !.input = review, !.resp = r.exc]
       /\ UNCHANGED <<users, profiles, cache, now, applications, bucket>>

\* the ids the database can give to the row a session inserts
FreshIds(st) ==
  IF st.op = "create" THEN AppIds \ DOMAIN applications ELSE {None}

\* a suspended request resumes and its session commits: the insert of
\* create_application, the assignments of review_application with the
\* update_user of an approval, or the assignments of update_user
SellerCommit ==
  \E s \in DOMAIN sessions :
  \E new_id \in FreshIds(sessions[s]) :
    LET st == sessions[s]
        u == commit_user_update(users, st)
        promote == update_user(users, profiles, st.user_id, None, st.role,
                               None)
        approve == st.op = "review" /\ st.role # None
        failed == IF st.op = "update" THEN u.raised # ""
                  ELSE approve /\ promote.raised
    IN /\ applications' =
            IF failed \/ st.op = "update" THEN applications
            ELSE IF st.op = "create"
            THEN [a \in (DOMAIN applications) \cup {new_id} |->
                    IF a = new_id THEN st.row ELSE applications[a]]
            ELSE [applications EXCEPT ![st.application_id] = st.row]
       /\ users' = IF failed THEN users
                   ELSE IF st.op = "update" THEN u.users
                   ELSE IF approve THEN promote.users
                   ELSE users
       /\ sessions' = [x \in (DOMAIN sessions) \ {s} |-> sessions[x]]
       /\ last' = [NoLast EXCEPT
                     !.op = "commit", !.arg = st.user_id,
                     !.validated = st.op,
                     !.input = IF st.op = "review" THEN st.review ELSE None,
                     !.resp = IF ~failed THEN OkResponse(200)
                              ELSE IF st.op = "update"
                              THEN global_exception_handler(u.raised)
                              ELSE promote.exc]
       /\ UNCHANGED <<profiles, cache, now, bucket>>

NextSellerConcurrent ==
  \/ BeginCreate
  \/ BeginReview
  \/ BeginUpdate
  \/ SellerCommit

SpecSellerConcurrent == InitSeller /\ [][NextSellerConcurrent]_vars

ReviewStep ==
  \/ OpStep("review_begin")
  \/ OpStep("commit") /\ last'.validated = "review"

NextProfile ==
  \/ UpdateProfile
  \/ UploadPicture

SpecProfile == InitStorage /\ [][NextProfile]_vars

\* every picture a profile names is an object of the bucket
PictureExists(ps, bkt) ==
  \A u \in DOMAIN ps :
    ps[u].picture_filename # None => ps[u].picture_filename \in DOMAIN bkt

====
